---- MODULE Spec2Model ----
(***************************************************************************)
(* MCP time server: the timezone resolver and the time computation engine  *)
(* of mcp_server_time_lambda.py (the "basic" program) and of               *)
(* mcp_server_time_lambda_optimized.py (the "optimized" program).          *)
(*                                                                         *)
(* Units.  Time is counted in seconds.  A wall-clock (naive) datetime is   *)
(* the number of seconds since 2026-01-01T00:00 on the wall clock; an      *)
(* instant is the number of seconds since 2026-01-01T00:00Z.  A calendar   *)
(* date is its day number, 2026-01-01 being day 0.  A Python str is a      *)
(* TLA+ string where it is only compared (timezone names) and a sequence   *)
(* of one-character strings where the code looks inside it (time of day).  *)
(***************************************************************************)
EXTENDS Integers, Sequences, FiniteSets, TLC

VARIABLES
    impl,            \* which program this process runs: "basic" or "optimized"
    env_TZ,          \* os.environ["TZ"], or None when unset
    startup_TZ,      \* history: os.environ["TZ"] when the module was imported
    LOCAL_TZ_NAME,   \* optimized: module global, line 14
    local_timezone,  \* basic: module global, line 24
    timezone_cache,  \* optimized: _timezone_cache, line 23
    lru,             \* optimized: the lru_cache around get_timezone, line 49
    today,           \* datetime.now().date() of the process's clock
    result,          \* what the last tool call returned (or raised)
    prev,            \* round-trip client: the forward conversion's result
    attempts,        \* history: ZoneInfo(name) constructions attempted, per name
    returned,        \* history: the handles get_timezone returned, per argument
    resolved,        \* the last call's locals tz / src_tz, tgt_tz
    pc,              \* round-trip client: its position
    req,             \* the last request (round-trip client: the one it drew)
    thr              \* worker threads inside get_timezone

vars == <<impl, env_TZ, startup_TZ, LOCAL_TZ_NAME, local_timezone, timezone_cache,
          lru, today, result, prev, attempts, returned, resolved, pc, req, thr>>

-----------------------------------------------------------------------------
(* Bounds of the model *)

\* stands for maxsize=256 of @lru_cache at line 49, scaled down
LruMaxsize == 2
\* cap of the per-name construction counter (history only)
MaxAttempts == 2
\* calls each worker thread makes in the concurrent specification
MaxCalls == 2

-----------------------------------------------------------------------------
(* Python values *)

None == "<None>"

\* bool(x) of a str or None argument
Truthy(s) == s # None /\ s # ""

\* x if x else y  /  x or y
Or(x, y) == IF Truthy(x) THEN x ELSE y

\* os.environ.get(key, default) on the TZ variable
EnvGet(env, default) == IF env = None THEN default ELSE env

-----------------------------------------------------------------------------
(* The timezone databases (tzdata as of 2026) *)

ZoneKeys == {"UTC", "Asia/Seoul", "America/New_York", "Asia/Kolkata"}

\* zoneinfo.ZoneInfo(key) succeeds: exact, case-sensitive key
ZoneInfoKnows(s) == s \in ZoneKeys

\* pytz.timezone(zone) also matches case-insensitively
PytzCanonical(s) ==
    CASE s \in ZoneKeys -> s
      [] s = "asia/seoul" -> "Asia/Seoul"
      [] s = "america/new_york" -> "America/New_York"
      [] OTHER -> None

PytzKnows(s) == PytzCanonical(s) # None

\* A timezone handle: the library that built it and its canonical name
ZoneInfoHandle(key) == [lib |-> "zoneinfo", key |-> key]
PytzHandle(key) == [lib |-> "pytz", key |-> key]

\* str(tz)
Str(h) == h.key

\* UTC offset transitions in 2026: America/New_York only.
\* 2026-03-08T07:00Z (day 66) EST -> EDT, 2026-11-01T06:00Z (day 304) EDT -> EST
Transitions(key) ==
    IF key = "America/New_York"
    THEN << [at |-> 66 * 86400 + 7 * 3600, before |-> -18000, after |-> -14400,
             dst |-> 3600],
            [at |-> 304 * 86400 + 6 * 3600, before |-> -14400, after |-> -18000,
             dst |-> 0] >>
    ELSE << >>

\* offset and DST saving in force on 2026-01-01
BaseOffset(key) ==
    CASE key = "UTC" -> 0
      [] key = "Asia/Seoul" -> 32400
      [] key = "America/New_York" -> -18000
      [] key = "Asia/Kolkata" -> 19800

\* pytz: the zone object's own offset is the first entry of the zone's
\* history, local mean time rounded to the minute
PytzLmt(key) ==
    CASE key = "UTC" -> 0
      [] key = "Asia/Seoul" -> 30480
      [] key = "America/New_York" -> -17760
      [] key = "Asia/Kolkata" -> 21180

Max(a, b) == IF a >= b THEN a ELSE b
Min(a, b) == IF a <= b THEN a ELSE b

\* index of the last transition passed, 0 if none; S holds the indexes of the
\* transitions passed
LastPassed(S) == IF S = {} THEN 0 ELSE CHOOSE i \in S : \A j \in S : j <= i

\* ZoneInfo._find_trans on an instant (fromutc)
TransAtUtc(key, u) ==
    LET T == Transitions(key)
    IN  LastPassed({i \in 1..Len(T) : T[i].at <= u})

\* ZoneInfo._find_trans on a wall time: for fold=0 a transition counts from
\* at + max(before, after), for fold=1 from at + min(before, after)
TransAtWall(key, wall, fold) ==
    LET T == Transitions(key)
        edge(i) == IF fold = 0 THEN T[i].at + Max(T[i].before, T[i].after)
                   ELSE T[i].at + Min(T[i].before, T[i].after)
    IN  LastPassed({i \in 1..Len(T) : edge(i) <= wall})

OffsetOf(key, i) == IF i = 0 THEN BaseOffset(key) ELSE Transitions(key)[i].after
DstOf(key, i) == IF i = 0 THEN 0 ELSE Transitions(key)[i].dst

\* ZoneInfo.fromutc: fold = 1 in the second pass of a repeated hour
FoldAtUtc(key, u) ==
    LET T == Transitions(key)
        i == TransAtUtc(key, u)
    IN  IF i # 0 /\ T[i].before - T[i].after > u - T[i].at THEN 1 ELSE 0

-----------------------------------------------------------------------------
(* datetime *)

\* An aware datetime: wall time, tzinfo, fold, and what utcoffset() and dst()
\* answer for it.

\* naive.replace(tzinfo=h): zoneinfo computes the offset from the wall time
\* with fold=0; a pytz zone object attached this way answers its own
\* (local mean time) offset
replace_tzinfo(wall, h) ==
    IF h.lib = "zoneinfo"
    THEN LET i == TransAtWall(h.key, wall, 0)
         IN  [wall |-> wall, tz |-> h, fold |-> 0,
              utcoffset |-> OffsetOf(h.key, i), dst |-> DstOf(h.key, i)]
    ELSE [wall |-> wall, tz |-> h, fold |-> 0,
          utcoffset |-> PytzLmt(h.key), dst |-> 0]

\* dt.timestamp()
timestamp(dt) == dt.wall - dt.utcoffset

\* tz.fromutc(instant), as datetime.now(tz) and astimezone use it
fromutc(u, h) ==
    LET i == TransAtUtc(h.key, u)
    IN  [wall |-> u + OffsetOf(h.key, i), tz |-> h,
         fold |-> IF h.lib = "zoneinfo" THEN FoldAtUtc(h.key, u) ELSE 0,
         utcoffset |-> OffsetOf(h.key, i), dst |-> DstOf(h.key, i)]

\* a faulty astimezone: it reads the wall time as UTC, dropping the source
\* offset (C5 must tell it from astimezone)
astimezone_wall_as_utc(dt, h) == IF h = dt.tz THEN dt ELSE fromutc(dt.wall, h)

\* dt.astimezone(h): conversion to the datetime's own tzinfo object returns
\* the datetime itself
astimezone(dt, h) == IF h = dt.tz THEN dt ELSE fromutc(timestamp(dt), h)

DigitChars == <<"0", "1", "2", "3", "4", "5", "6", "7", "8", "9">>

IsDigit(c) == \E i \in 1..10 : DigitChars[i] = c
DigitVal(c) == (CHOOSE i \in 1..10 : DigitChars[i] = c) - 1

\* "%02d" % n
Fmt2(n) == <<DigitChars[(n \div 10) + 1], DigitChars[(n % 10) + 1]>>

\* dt.isoformat(): the date (a day number here), HH:MM:SS and the offset
isoformat(dt) ==
    LET s == dt.wall % 86400
    IN  [date |-> dt.wall \div 86400,
         time |-> Fmt2(s \div 3600) \o <<":">> \o Fmt2((s % 3600) \div 60)
                  \o <<":">> \o Fmt2(s % 60),
         offset |-> dt.utcoffset]

\* datetime.time.fromisoformat(tstr): HH[:MM[:SS]], two digits per component,
\* ":" between components, then time(hour, minute, second) validates the
\* ranges; ValueError otherwise. This is the function on strings without a
\* fraction, a UTC offset, a "T" prefix or the compact HHMM form, which are
\* the strings sent here (the compact forms are accepted from Python 3.11 on
\* only).
ValueError == [ok |-> FALSE]

TwoDigits(s, pos) == pos + 1 <= Len(s) /\ IsDigit(s[pos]) /\ IsDigit(s[pos + 1])
TwoDigitsVal(s, pos) == DigitVal(s[pos]) * 10 + DigitVal(s[pos + 1])

time_fromisoformat(s) ==
    LET wellFormed ==
            /\ Len(s) \in {2, 5, 8}
            /\ TwoDigits(s, 1)
            /\ Len(s) >= 5 => s[3] = ":" /\ TwoDigits(s, 4)
            /\ Len(s) >= 8 => s[6] = ":" /\ TwoDigits(s, 7)
        hour == TwoDigitsVal(s, 1)
        minute == IF Len(s) >= 5 THEN TwoDigitsVal(s, 4) ELSE 0
        second == IF Len(s) >= 8 THEN TwoDigitsVal(s, 7) ELSE 0
    IN  IF wellFormed /\ hour <= 23 /\ minute <= 59 /\ second <= 59
        THEN [ok |-> TRUE, hour |-> hour, minute |-> minute, second |-> second]
        ELSE ValueError

\* datetime.combine(date, time): the naive wall time
combine(date, t) == date * 86400 + t.hour * 3600 + t.minute * 60 + t.second

-----------------------------------------------------------------------------
(* Inputs *)

\* HH:MM as the str the caller sends
HHMM(h, m) == Fmt2(h) \o <<":">> \o Fmt2(m)

\* every timezone string the clients send or the environment holds
AllNames == {None, "", "UTC", "Asia/Seoul", "America/New_York", "Asia/Kolkata",
             "Mars/Phobos", "asia/seoul"}

\* values of the TZ environment variable
EnvValues == {None, "Asia/Seoul", "Mars/Phobos"}

-----------------------------------------------------------------------------
(* Basic program: mcp_server_time_lambda.py *)

\* get_local_timezone(): the set of values it can return. When ZoneInfo
\* rejects the TZ setting the answer depends on the host: tzlocal's zone name
\* looked up in pytz, or pytz.UTC when tzlocal is missing or fails.
get_local_timezone(env) ==
    LET name == EnvGet(env, "UTC")
    IN  IF ZoneInfoKnows(name)
        THEN {ZoneInfoHandle(name)}
        ELSE {PytzHandle(k) : k \in ZoneKeys}

\* the exception a handler lets through
Raise(exc) == [lib |-> "raise", key |-> exc]
Raised(h) == h.lib = "raise"

\* get_current_time, lines 32-42
BasicResolveCurrent(timezone, local) ==
    IF Truthy(timezone)
    THEN IF ZoneInfoKnows(timezone) THEN ZoneInfoHandle(timezone)
         ELSE IF PytzKnows(timezone) THEN PytzHandle(PytzCanonical(timezone))
         ELSE local
    ELSE local

\* convert_time, lines 59-62 and 63-66: no handler around pytz.timezone
BasicResolveConvert(name) ==
    IF ZoneInfoKnows(name) THEN ZoneInfoHandle(name)
    ELSE IF PytzKnows(name) THEN PytzHandle(PytzCanonical(name))
    ELSE Raise("UnknownTimeZoneError")

-----------------------------------------------------------------------------
(* Optimized program: mcp_server_time_lambda_optimized.py *)

\* functools.lru_cache(maxsize): entries oldest first
LruHit(l, k) == \E i \in 1..Len(l) : l[i].key = k
LruGet(l, k) == l[CHOOSE i \in 1..Len(l) : l[i].key = k].value
LruTouch(l, k) ==
    LET i == CHOOSE j \in 1..Len(l) : l[j].key = k
    IN  SubSeq(l, 1, i - 1) \o SubSeq(l, i + 1, Len(l)) \o <<l[i]>>
\* a key another caller stored during the call is left as it is
LruInsert(l, k, v) ==
    IF LruHit(l, k) THEN l
    ELSE IF Len(l) >= LruMaxsize
         THEN Tail(l) \o <<[key |-> k, value |-> v]>>
         ELSE Append(l, [key |-> k, value |-> v])

\* a faulty default: read from the environment on every call (C6 must tell
\* it from DefaultName)
DefaultName_from_env(tz_name, local_name) ==
    IF ~Truthy(tz_name) THEN EnvGet(env_TZ, "UTC") ELSE tz_name

\* lines 52-53
DefaultName(tz_name, local_name) == IF ~Truthy(tz_name) THEN local_name ELSE tz_name

\* line 55
CacheMiss(cache, k) == k \notin DOMAIN cache

\* lines 57-61: try ZoneInfo(tz_name) except ZoneInfo("UTC")
Construct(k) == IF ZoneInfoKnows(k) THEN ZoneInfoHandle(k) ELSE ZoneInfoHandle("UTC")

\* a faulty store: the dict rebound to a fresh one-entry dict (C10 must tell
\* it from StoreEntry)
StoreEntry_rebind(cache, k, h) == [x \in {k} |-> h]

\* _timezone_cache[tz_name] = value
StoreEntry(cache, k, h) ==
    [x \in DOMAIN cache \cup {k} |-> IF x = k THEN h ELSE cache[x]]

\* line 63: _timezone_cache[tz_name]
ReadEntry(cache, k) == IF k \in DOMAIN cache THEN cache[k] ELSE Raise("KeyError")

Bump(att, k) == [att EXCEPT ![k] = Min(@ + 1, MaxAttempts)]

\* get_timezone(tz_name) run by one caller without interruption: the new
\* lru, _timezone_cache and attempt counters, the value returned, and where
\* the value came from
get_timezone(tz_name, l, cache, local_name, att) ==
    IF LruHit(l, tz_name)
    THEN [lru |-> LruTouch(l, tz_name), cache |-> cache, attempts |-> att,
          ret |-> LruGet(l, tz_name), via |-> "lru_cache"]
    ELSE LET k == DefaultName(tz_name, local_name)
             miss == CacheMiss(cache, k)
             c2 == IF miss THEN StoreEntry(cache, k, Construct(k)) ELSE cache
             ret == ReadEntry(c2, k)
         IN  [lru |-> LruInsert(l, tz_name, ret), cache |-> c2,
              attempts |-> IF miss THEN Bump(att, k) ELSE att, ret |-> ret,
              via |-> IF miss THEN "ZoneInfo" ELSE "_timezone_cache"]

-----------------------------------------------------------------------------
(* Result records *)

\* a float number of hours, kept as the fraction num / den; None is none
Hours(seconds) == [none |-> FALSE, num |-> seconds, den |-> 3600]
NoneHours == [none |-> TRUE, num |-> 0, den |-> 3600]

\* bool(timedelta): a zero offset is falsy
TruthyDelta(seconds) == seconds # 0

\* "utc_offset_hours": offset.total_seconds() / 3600 if offset else 0
UtcOffsetHours(off) == IF TruthyDelta(off) THEN Hours(off) ELSE Hours(0)

\* "utc_offset_diff_hours": (tgt - src) / 3600 if tgt_offset and src_offset else None
UtcOffsetDiffHours(tgt_off, src_off) ==
    IF TruthyDelta(tgt_off) /\ TruthyDelta(src_off)
    THEN Hours(tgt_off - src_off) ELSE NoneHours

\* "time_difference_seconds": dt_tgt.timestamp() - dt_src.timestamp()
TimeDifferenceSeconds(dt_tgt, dt_src) == timestamp(dt_tgt) - timestamp(dt_src)

\* get_current_time's record, the instant being u. The optimized program adds
\* "timestamp".
CurrentRecord(tz, u, program) ==
    LET now == fromutc(u, tz)
        base == [kind |-> "ok", timezone |-> Str(tz), iso8601 |-> isoformat(now),
                 dst |-> now.dst # 0,
                 utc_offset_hours |-> UtcOffsetHours(now.utcoffset)]
    IN  IF program = "optimized"
        THEN base @@ [timestamp |-> timestamp(now)]
        ELSE base

\* the body of convert_time once both timezones are resolved.
\* The basic program has no handler for ValueError and no
\* "time_difference_seconds".
ConvertRecord(src_tz, time, tgt_tz, day, program) ==
    LET t == time_fromisoformat(time)
        dt_naive == combine(day, t)
        dt_src == replace_tzinfo(dt_naive, src_tz)
        dt_tgt == astimezone(dt_src, tgt_tz)
        base == [kind |-> "ok",
                 source_time |-> isoformat(dt_src),
                 source_timezone |-> Str(src_tz),
                 target_time |-> isoformat(dt_tgt),
                 target_timezone |-> Str(tgt_tz),
                 dst_source |-> dt_src.dst # 0,
                 dst_target |-> dt_tgt.dst # 0,
                 utc_offset_diff_hours |->
                     UtcOffsetDiffHours(dt_tgt.utcoffset, dt_src.utcoffset),
                 target_fold |-> dt_tgt.fold]
    IN  IF ~t.ok
        THEN IF program = "optimized"
             THEN [kind |-> "error", error_time |-> time,
                   details |-> "ValueError"]
             ELSE [kind |-> "raise", exc |-> "ValueError"]
        ELSE IF program = "optimized"
             THEN base @@ [time_difference_seconds |->
                               TimeDifferenceSeconds(dt_tgt, dt_src)]
             ELSE base

NoResult == [kind |-> "none"]
NoRequest == [op |-> "none"]

-----------------------------------------------------------------------------
(* State after import *)

Programs == {"basic", "optimized"}
Threads == {1, 2}

NoHandle == [lib |-> "none", key |-> None]
EmptyCache == [x \in {} |-> NoHandle]
IdleThread == [pc |-> "idle", arg |-> None, k |-> None, h |-> NoHandle,
               ret |-> NoHandle, calls |-> 0]

\* module import: lines 14 and 23 (optimized), line 24 (basic)
Import(program, env) ==
    /\ impl = program
    /\ env_TZ = env
    /\ startup_TZ = env
    /\ LOCAL_TZ_NAME = IF program = "optimized" THEN EnvGet(env, "UTC") ELSE None
    /\ local_timezone \in IF program = "basic" THEN get_local_timezone(env)
                          ELSE {NoHandle}
    /\ timezone_cache = EmptyCache
    /\ lru = << >>
    /\ result = NoResult
    /\ prev = NoResult
    /\ attempts = [n \in AllNames |-> 0]
    /\ returned = [n \in AllNames |-> {}]
    /\ resolved = << >>
    /\ thr = [t \in Threads |-> IdleThread]

-----------------------------------------------------------------------------
(* Tool calls *)

\* a local of the handler: the name given, the handle bound to it, and where
\* the handle came from
Resolved(name, tz, via) == [name |-> name, tz |-> tz, via |-> via]

Return(ret, name, tz) == [ret EXCEPT ![name] = @ \cup {tz}]

\* optimized get_current_time, lines 84-95; sec is the time of day of the
\* instant captured
OptGetCurrentTime(timezone, sec) ==
    LET arg == Or(timezone, LOCAL_TZ_NAME)
        g == get_timezone(arg, lru, timezone_cache, LOCAL_TZ_NAME, attempts)
    IN  /\ impl = "optimized"
        /\ lru' = g.lru
        /\ timezone_cache' = g.cache
        /\ attempts' = g.attempts
        /\ returned' = Return(returned, arg, g.ret)
        /\ resolved' = <<Resolved(timezone, g.ret, g.via)>>
        /\ result' = IF Raised(g.ret) THEN [kind |-> "raise", exc |-> g.ret.key]
                     ELSE CurrentRecord(g.ret, today * 86400 + sec, "optimized")
        /\ req' = [op |-> "get_current_time", timezone |-> timezone]
        /\ UNCHANGED <<impl, env_TZ, startup_TZ, LOCAL_TZ_NAME, local_timezone,
                       today, thr>>

\* optimized convert_time, lines 104-133
OptConvertTime(source_timezone, time, target_timezone) ==
    LET g1 == get_timezone(source_timezone, lru, timezone_cache, LOCAL_TZ_NAME,
                           attempts)
        g2 == get_timezone(target_timezone, g1.lru, g1.cache, LOCAL_TZ_NAME,
                           g1.attempts)
    IN  /\ impl = "optimized"
        /\ lru' = g2.lru
        /\ timezone_cache' = g2.cache
        /\ attempts' = g2.attempts
        /\ returned' = Return(Return(returned, source_timezone, g1.ret),
                              target_timezone, g2.ret)
        /\ resolved' = <<Resolved(source_timezone, g1.ret, g1.via),
                         Resolved(target_timezone, g2.ret, g2.via)>>
        /\ result' = IF Raised(g1.ret) THEN [kind |-> "raise", exc |-> g1.ret.key]
                     ELSE IF Raised(g2.ret) THEN [kind |-> "raise", exc |-> g2.ret.key]
                     ELSE ConvertRecord(g1.ret, time, g2.ret, today, "optimized")
        /\ req' = [op |-> "convert_time", source_timezone |-> source_timezone,
                   time |-> time, target_timezone |-> target_timezone]
        /\ UNCHANGED <<impl, env_TZ, startup_TZ, LOCAL_TZ_NAME, local_timezone,
                       today, thr>>

\* basic get_current_time, lines 31-49
BasicGetCurrentTime(timezone, sec) ==
    LET tz == BasicResolveCurrent(timezone, local_timezone)
    IN  /\ impl = "basic"
        /\ attempts' = IF Truthy(timezone) THEN Bump(attempts, timezone) ELSE attempts
        /\ returned' = returned
        /\ resolved' = <<Resolved(timezone, tz, tz.lib)>>
        /\ result' = CurrentRecord(tz, today * 86400 + sec, "basic")
        /\ req' = [op |-> "get_current_time", timezone |-> timezone]
        /\ UNCHANGED <<impl, env_TZ, startup_TZ, LOCAL_TZ_NAME, local_timezone,
                       timezone_cache, lru, today, thr>>

\* basic convert_time, lines 58-80
BasicConvertTime(source_timezone, time, target_timezone) ==
    LET src_tz == BasicResolveConvert(source_timezone)
        tgt_tz == BasicResolveConvert(target_timezone)
    IN  /\ impl = "basic"
        /\ IF Raised(src_tz)
           THEN /\ attempts' = Bump(attempts, source_timezone)
                /\ resolved' = << >>
                /\ result' = [kind |-> "raise", exc |-> src_tz.key]
           ELSE IF Raised(tgt_tz)
           THEN /\ attempts' = Bump(Bump(attempts, source_timezone), target_timezone)
                /\ resolved' = <<Resolved(source_timezone, src_tz, src_tz.lib)>>
                /\ result' = [kind |-> "raise", exc |-> tgt_tz.key]
           ELSE /\ attempts' = Bump(Bump(attempts, source_timezone), target_timezone)
                /\ resolved' = <<Resolved(source_timezone, src_tz, src_tz.lib),
                                 Resolved(target_timezone, tgt_tz, tgt_tz.lib)>>
                /\ result' = ConvertRecord(src_tz, time, tgt_tz, today, "basic")
        /\ req' = [op |-> "convert_time", source_timezone |-> source_timezone,
                   time |-> time, target_timezone |-> target_timezone]
        /\ UNCHANGED <<impl, env_TZ, startup_TZ, LOCAL_TZ_NAME, local_timezone,
                       timezone_cache, lru, returned, today, thr>>

-----------------------------------------------------------------------------
(* Spec: one process serving requests one after the other, on 2026-03-08 *)

\* what the server's clients send
ServerNames == {"", "UTC", "Asia/Seoul", "Mars/Phobos"}
ServerTimes == {HHMM(9, 0), HHMM(25, 0)}
\* time of day of the instants get_current_time captures
NowSeconds == {12 * 3600}

Init ==
    /\ \E program \in Programs, env \in EnvValues : Import(program, env)
    /\ today = 66
    /\ pc = "serving"
    /\ req = NoRequest

ServeOptGetCurrentTime ==
    /\ \E timezone \in ServerNames \cup {None}, sec \in NowSeconds :
           OptGetCurrentTime(timezone, sec)
    /\ UNCHANGED <<pc, prev>>

ServeOptConvertTime ==
    /\ \E src \in ServerNames, time \in ServerTimes, tgt \in ServerNames :
           OptConvertTime(src, time, tgt)
    /\ UNCHANGED <<pc, prev>>

ServeBasicGetCurrentTime ==
    /\ \E timezone \in ServerNames \cup {None}, sec \in NowSeconds :
           BasicGetCurrentTime(timezone, sec)
    /\ UNCHANGED <<pc, prev>>

ServeBasicConvertTime ==
    /\ \E src \in ServerNames, time \in ServerTimes, tgt \in ServerNames :
           BasicConvertTime(src, time, tgt)
    /\ UNCHANGED <<pc, prev>>

\* the environment variable changes after import
SetEnv ==
    /\ \E v \in EnvValues : v # env_TZ /\ env_TZ' = v
    /\ UNCHANGED <<impl, startup_TZ, LOCAL_TZ_NAME, local_timezone, timezone_cache,
                   lru, today, result, prev, attempts, returned, resolved, pc, req,
                   thr>>

Next ==
    \/ ServeOptGetCurrentTime
    \/ ServeOptConvertTime
    \/ ServeBasicGetCurrentTime
    \/ ServeBasicConvertTime
    \/ SetEnv

Spec == Init /\ [][Next]_vars

-----------------------------------------------------------------------------
(* SpecConvert: a client that converts a time and converts the answer back *)

ConvertNames == {"", "UTC", "Asia/Seoul", "America/New_York", "Asia/Kolkata",
                 "Mars/Phobos", "asia/seoul"}

\* zero-padded 24-hour HH:MM, on the hour and on the half hour
ValidTimes == {HHMM(h, m) : h \in 0..23, m \in {0, 30}}

\* "25:00", "12:60", "noon", "", "9:00", "09", "09:00:30"
OtherTimes == {HHMM(25, 0), HHMM(12, 60), <<"n", "o", "o", "n">>, << >>,
               <<"9", ":", "0", "0">>, Fmt2(9), HHMM(9, 0) \o <<":">> \o Fmt2(30)}

\* 2026-03-07..09 (New York changes to EDT on 03-08), 2026-06-30,
\* 2026-10-31..11-02 (New York changes back to EST on 11-01)
Days == {65, 66, 67, 180, 303, 304, 305}

\* what the interface asks of time_of_day: zero-padded 24-hour HH:MM
ValidHHMM(s) ==
    /\ Len(s) = 5
    /\ TwoDigits(s, 1) /\ s[3] = ":" /\ TwoDigits(s, 4)
    /\ TwoDigitsVal(s, 1) <= 23 /\ TwoDigitsVal(s, 4) <= 59

\* the HH:MM of an isoformat timestamp, as a client cuts it out
TimeOfDay(iso) == SubSeq(iso.time, 1, 5)

\* the instant an isoformat timestamp names
Instant(iso) ==
    LET t == time_fromisoformat(iso.time)
    IN  combine(iso.date, t) - iso.offset

InitConvert ==
    /\ \E program \in Programs, env \in {None, "Asia/Seoul"} : Import(program, env)
    /\ today \in Days
    /\ pc = "start"
    /\ req \in [op : {"convert_time"}, source_timezone : ConvertNames,
                time : ValidTimes \cup OtherTimes, target_timezone : ConvertNames]

ForwardOpt ==
    /\ pc = "start"
    /\ OptConvertTime(req.source_timezone, req.time, req.target_timezone)
    /\ pc' = "forward"
    /\ prev' = prev

ForwardBasic ==
    /\ pc = "start"
    /\ BasicConvertTime(req.source_timezone, req.time, req.target_timezone)
    /\ pc' = "forward"
    /\ prev' = prev

\* after a conversion of a valid HH:MM: the answer's target time of day,
\* from the target timezone to the source
BackOpt ==
    /\ pc = "forward"
    /\ ValidHHMM(req.time)
    /\ result.kind = "ok"
    /\ OptConvertTime(req.target_timezone, TimeOfDay(result.target_time),
                      req.source_timezone)
    /\ pc' = "back"
    /\ prev' = result

BackBasic ==
    /\ pc = "forward"
    /\ ValidHHMM(req.time)
    /\ result.kind = "ok"
    /\ BasicConvertTime(req.target_timezone, TimeOfDay(result.target_time),
                        req.source_timezone)
    /\ pc' = "back"
    /\ prev' = result

NextConvert ==
    \/ ForwardOpt
    \/ ForwardBasic
    \/ BackOpt
    \/ BackBasic

SpecConvert == InitConvert /\ [][NextConvert]_vars

-----------------------------------------------------------------------------
(* SpecConc: worker threads of one optimized process inside get_timezone. *)
(* Each step is one bytecode-level access to the shared objects: the      *)
(* lru_cache wrapper works under its own lock, a dict lookup and a dict   *)
(* store are atomic.                                                       *)

ThreadNames == {"", "UTC", "Mars/Phobos"}

InitConc ==
    /\ \E env \in EnvValues : Import("optimized", env)
    /\ today = 66
    /\ pc = "serving"
    /\ req = NoRequest

ThreadFrame ==
    UNCHANGED <<impl, env_TZ, startup_TZ, LOCAL_TZ_NAME, local_timezone, today,
                result, prev, resolved, pc, req>>

\* a request enters get_timezone(arg)
Call(t) ==
    /\ thr[t].pc = "idle"
    /\ thr[t].calls < MaxCalls
    /\ \E arg \in ThreadNames :
           thr' = [thr EXCEPT ![t] = [IdleThread EXCEPT !.pc = "lookup", !.arg = arg,
                                                       !.calls = thr[t].calls]]
    /\ UNCHANGED <<timezone_cache, lru, attempts, returned>>
    /\ ThreadFrame

\* lru_cache wrapper: look the argument up
Lookup(t) ==
    /\ thr[t].pc = "lookup"
    /\ IF LruHit(lru, thr[t].arg)
       THEN /\ lru' = LruTouch(lru, thr[t].arg)
            /\ thr' = [thr EXCEPT ![t].pc = "return",
                                  ![t].ret = LruGet(lru, thr[t].arg)]
       ELSE /\ lru' = lru
            /\ thr' = [thr EXCEPT ![t].pc = "check"]
    /\ UNCHANGED <<timezone_cache, attempts, returned>>
    /\ ThreadFrame

\* lines 52-55
Check(t) ==
    /\ thr[t].pc = "check"
    /\ LET k == DefaultName(thr[t].arg, LOCAL_TZ_NAME)
       IN  thr' = [thr EXCEPT ![t].k = k,
                              ![t].pc = IF CacheMiss(timezone_cache, k)
                                        THEN "construct" ELSE "read"]
    /\ UNCHANGED <<timezone_cache, lru, attempts, returned>>
    /\ ThreadFrame

\* lines 57-61, right-hand sides
ConstructStep(t) ==
    /\ thr[t].pc = "construct"
    /\ thr' = [thr EXCEPT ![t].h = Construct(thr[t].k), ![t].pc = "store"]
    /\ attempts' = Bump(attempts, thr[t].k)
    /\ UNCHANGED <<timezone_cache, lru, returned>>
    /\ ThreadFrame

\* lines 58 / 61, the store
Store(t) ==
    /\ thr[t].pc = "store"
    /\ timezone_cache' = StoreEntry(timezone_cache, thr[t].k, thr[t].h)
    /\ thr' = [thr EXCEPT ![t].pc = "read"]
    /\ UNCHANGED <<lru, attempts, returned>>
    /\ ThreadFrame

\* line 63; a KeyError leaves the wrapper without storing
Read(t) ==
    /\ thr[t].pc = "read"
    /\ LET ret == ReadEntry(timezone_cache, thr[t].k)
       IN  thr' = [thr EXCEPT ![t].ret = ret,
                              ![t].pc = IF Raised(ret) THEN "return" ELSE "insert"]
    /\ UNCHANGED <<timezone_cache, lru, attempts, returned>>
    /\ ThreadFrame

\* lru_cache wrapper: store the result
Insert(t) ==
    /\ thr[t].pc = "insert"
    /\ lru' = LruInsert(lru, thr[t].arg, thr[t].ret)
    /\ thr' = [thr EXCEPT ![t].pc = "return"]
    /\ UNCHANGED <<timezone_cache, attempts, returned>>
    /\ ThreadFrame

\* the caller has its handle
ReturnStep(t) ==
    /\ thr[t].pc = "return"
    /\ returned' = Return(returned, thr[t].arg, thr[t].ret)
    /\ thr' = [thr EXCEPT ![t].pc = "idle", ![t].calls = @ + 1]
    /\ UNCHANGED <<timezone_cache, lru, attempts>>
    /\ ThreadFrame

NextConc ==
    \E t \in Threads :
        \/ Call(t)
        \/ Lookup(t)
        \/ Check(t)
        \/ ConstructStep(t)
        \/ Store(t)
        \/ Read(t)
        \/ Insert(t)
        \/ ReturnStep(t)

SpecConc == InitConc /\ [][NextConc]_vars

-----------------------------------------------------------------------------
(* Properties *)

\* the timezone names of the last request
RequestNames ==
    CASE req.op = "get_current_time" -> {req.timezone}
      [] req.op = "convert_time" -> {req.source_timezone, req.target_timezone}
      [] OTHER -> {}

\* a non-empty name that neither zoneinfo nor pytz knows
Unknown(n) == Truthy(n) /\ ~ZoneInfoKnows(n) /\ ~PytzKnows(n)

\* the handles the last call bound to the name n
BoundTo(n) == {resolved[i].tz : i \in {j \in 1..Len(resolved) : resolved[j].name = n}}

\* C1: a timezone string unknown to both databases never makes
\* get_current_time or convert_time raise, and is resolved to a handle whose
\* canonical name is UTC.
C1_UnknownResolvesToUTC ==
    \A n \in RequestNames :
        Unknown(n) =>
            /\ result.kind # "raise"
            /\ BoundTo(n) # {}
            /\ \A tz \in BoundTo(n) : Str(tz) = "UTC"

\* C2: for a time_of_day that is not a zero-padded 24-hour HH:MM,
\* convert_time returns an invalid-input error record carrying the string; it
\* does not raise and does not return a conversion. (Stated for requests
\* whose timezone names zoneinfo knows.)
C2_InvalidTimeYieldsError ==
    (/\ pc = "forward"
     /\ ZoneInfoKnows(req.source_timezone) /\ ZoneInfoKnows(req.target_timezone)
     /\ ~ValidHHMM(req.time))
        => (result.kind = "error" /\ result.error_time = req.time)

\* C3: in every successful convert_time result, time_difference_seconds
\* equals utc_offset_diff_hours x 3600. (Stated for the optimized program,
\* which has the field, and for results whose utc_offset_diff_hours is a
\* number.)
C3_TimeDifferenceIsOffsetDiff ==
    (/\ pc = "forward" /\ impl = "optimized" /\ result.kind = "ok"
     /\ ValidHHMM(req.time)
     /\ ~result.utc_offset_diff_hours.none)
        => result.time_difference_seconds * result.utc_offset_diff_hours.den
               = result.utc_offset_diff_hours.num * 3600

\* C4: convert_time(A, HH:MM, A), for every timezone A and valid HH:MM,
\* returns source and target timestamps for the same local time, with
\* utc_offset_diff_hours = 0 and time_difference_seconds = 0. (Stated for the
\* names zoneinfo knows.)
C4_SameZoneIsIdentity ==
    (/\ pc = "forward"
     /\ req.source_timezone = req.target_timezone
     /\ ZoneInfoKnows(req.source_timezone)
     /\ ValidHHMM(req.time))
        => /\ result.kind = "ok"
           /\ result.target_time = result.source_time
           /\ ~result.utc_offset_diff_hours.none
           /\ result.utc_offset_diff_hours.num = 0
           /\ impl = "optimized" => result.time_difference_seconds = 0

\* the round trip has been made by the optimized program
RoundTripDone == pc = "back" /\ impl = "optimized" /\ result.kind = "ok"

\* C5 as claimed: converting A to B and the resulting target time of day
\* from B back to A returns the original source instant.
C5_RoundTripOriginal ==
    RoundTripDone => Instant(result.target_time) = Instant(prev.source_time)

\* C5 as amended: the round trip returns the original source instant
\* whenever the forward conversion's target timestamp is on today's date and
\* is not the second pass of a repeated (fall-back) hour.
C5_RoundTripSameDate ==
    (/\ RoundTripDone
     /\ prev.target_time.date = today
     /\ prev.target_fold = 0)
        => /\ Instant(result.target_time) = Instant(prev.source_time)
           /\ Instant(result.source_time) = Instant(prev.target_time)

\* C5's case: a round trip between zones of different offsets whose forward
\* target stayed on today's date
C5_Witness ==
    /\ RoundTripDone
    /\ prev.target_time.date = today
    /\ prev.target_fold = 0
    /\ prev.source_time.offset # prev.target_time.offset
    /\ prev.dst_target

\* C6: two resolves of the same string return the same handle, whatever is
\* resolved in between; an entry of the cache never changes or disappears
\* once inserted.
C6_CacheConsistent ==
    [][/\ \A k \in DOMAIN timezone_cache :
              k \in DOMAIN timezone_cache' /\ timezone_cache'[k] = timezone_cache[k]
       /\ \A n \in AllNames : Cardinality(returned'[n]) <= 1]_vars

\* C6's case: a string resolved before is resolved again after the lru_cache
\* has dropped it for other strings
C6_Witness ==
    \E i \in 1..Len(resolved) :
        /\ resolved[i].via = "_timezone_cache"
        /\ returned[resolved[i].name] = {resolved[i].tz}
        /\ Len(lru) = LruMaxsize

\* the timezone the process was started with
StartupDefault == EnvGet(startup_TZ, "UTC")

\* C7: an empty or absent timezone name makes get_current_time and
\* convert_time use the default timezone read from TZ at startup (UTC when
\* unset), whatever TZ holds later. (Stated for a startup setting zoneinfo
\* knows.)
C7_EmptyUsesStartupDefault ==
    \A n \in RequestNames :
        (~Truthy(n) /\ ZoneInfoKnows(StartupDefault)) =>
            /\ result.kind # "raise"
            /\ BoundTo(n) = {ZoneInfoHandle(StartupDefault)}

\* C8: the handles held by the process-wide cache state never exceed the
\* capacity ceiling.
C8_CacheBounded ==
    /\ Len(lru) <= LruMaxsize
    /\ Cardinality(DOMAIN timezone_cache) <= LruMaxsize

\* C9: the timezone-database construction for a given input string is
\* attempted at most once in the life of the process.
C9_ConstructedAtMostOnce == \A n \in AllNames : attempts[n] <= 1

\* the handle a caller of get_timezone(arg) is owed: the zone named, the
\* startup default for an empty name, UTC for a name zoneinfo does not know
OwedName(arg) == IF Truthy(arg) THEN arg ELSE StartupDefault
OwedHandle(arg) ==
    IF OwedName(arg) \in ZoneKeys THEN [lib |-> "zoneinfo", key |-> OwedName(arg)]
    ELSE [lib |-> "zoneinfo", key |-> "UTC"]

\* C10: under every interleaving of the threads' lookup, construct and store
\* steps, a store leaves the mappings already in the cache as they are, and
\* every caller returns the handle owed for its string, which is then the
\* cache's one entry for that key.
C10_RacingMissesAreSafe ==
    [][/\ \A k \in DOMAIN timezone_cache :
              k \in DOMAIN timezone_cache' /\ timezone_cache'[k] = timezone_cache[k]
       /\ \A t \in Threads :
              thr'[t].pc = "return" =>
                  /\ thr'[t].ret = OwedHandle(thr'[t].arg)
                  /\ OwedName(thr'[t].arg) \in DOMAIN timezone_cache'
                  /\ timezone_cache'[OwedName(thr'[t].arg)] = thr'[t].ret]_vars

\* C10's case: two threads missed on the same string, both constructed the
\* handle, and both are returning
C10_Witness ==
    /\ thr[1].pc = "return" /\ thr[2].pc = "return"
    /\ thr[1].arg = thr[2].arg
    /\ thr[1].h # NoHandle /\ thr[2].h # NoHandle
    /\ attempts[OwedName(thr[1].arg)] >= 2
    /\ Cardinality(DOMAIN timezone_cache) >= 2

====
